---- MODULE Spec2Model ----
(***************************************************************************)
(* Model of the jobs router (src/routes/jobs.js): the six route handlers,  *)
(* the middleware each route registers, the query normalisation of GET /,  *)
(* and the collaborators the handlers call (Job, User, jsonschema and the  *)
(* auth middleware), whose code lies outside routes/jobs.js and is         *)
(* modelled from the specification.                                        *)
(*                                                                         *)
(* Strings are sequences of one-character strings, so that conversions     *)
(* (unary plus, case folding, substring search) are computed, not assumed. *)
(* A handler runs in two steps: the synchronous part up to its await (the  *)
(* middleware, the validation and the call it issues), and the completion  *)
(* (the collaborator's effect on the store, and the response).  Requests   *)
(* held by different slots interleave between the two.                     *)
(***************************************************************************)
EXTENDS Integers, Sequences, FiniteSets, TLC

VARIABLES jobs, nextId, applications, reqs, received

vars == <<jobs, nextId, applications, reqs, received>>

(* ------------------------------ bounds --------------------------------- *)

\* Ids the store may generate: 1..MaxJobs.
MaxJobs == 4

\* Requests one behaviour receives.
MaxReqs == 3

\* The two request slots: two requests may be in flight at once.
Slots == {"a", "b"}

(* --------------------------- strings, numbers -------------------------- *)

Digits == <<"0", "1", "2", "3", "4", "5", "6", "7", "8", "9">>

IsDigit(c) == \E i \in 1..Len(Digits) : Digits[i] = c

DigitVal(c) == (CHOOSE i \in 1..Len(Digits) : Digits[i] = c) - 1

IsSpace(c) == c = " "

RECURSIVE TrimLeft(_)
TrimLeft(s) == IF s # <<>> /\ IsSpace(Head(s)) THEN TrimLeft(Tail(s)) ELSE s

RECURSIVE TrimRight(_)
TrimRight(s) ==
  IF s # <<>> /\ IsSpace(s[Len(s)]) THEN TrimRight(SubSeq(s, 1, Len(s) - 1)) ELSE s

Trim(s) == TrimRight(TrimLeft(s))

RECURSIVE DecimalValue(_)
DecimalValue(s) ==
  IF s = <<>> THEN 0
  ELSE 10 * DecimalValue(SubSeq(s, 1, Len(s) - 1)) + DigitVal(s[Len(s)])

AllDigits(s) == s # <<>> /\ \A i \in 1..Len(s) : IsDigit(s[i])

\* A JavaScript value: a string, a number, NaN, a boolean or undefined.
JStr(s) == [t |-> "string", s |-> s, n |-> 0]

JNum(n) == [t |-> "number", s |-> <<>>, n |-> n]

JNaN == [t |-> "NaN", s |-> <<>>, n |-> 0]

JBool(b) == [t |-> "boolean", s |-> <<>>, n |-> IF b THEN 1 ELSE 0]

\* undefined: a property that is not there.
JUndefined == [t |-> "undefined", s |-> <<>>, n |-> 0]

\* Unary plus on a string (StringToNumber): white space is trimmed, the empty
\* string is 0, an optionally signed run of digits is its value, anything
\* else is NaN.  (The inputs hold no '.', exponent or radix prefix.)
ToNumber(s) ==
  LET t == Trim(s)
  IN  IF t = <<>> THEN JNum(0)
      ELSE IF AllDigits(t) THEN JNum(DecimalValue(t))
      ELSE IF Head(t) = "-" /\ AllDigits(Tail(t)) THEN JNum(0 - DecimalValue(Tail(t)))
      ELSE IF Head(t) = "+" /\ AllDigits(Tail(t)) THEN JNum(DecimalValue(Tail(t)))
      ELSE JNaN

Upper == <<"A", "B", "C", "D", "E", "F", "G", "H", "I", "J", "K", "L", "M",
           "N", "O", "P", "Q", "R", "S", "T", "U", "V", "W", "X", "Y", "Z">>

Lower == <<"a", "b", "c", "d", "e", "f", "g", "h", "i", "j", "k", "l", "m",
           "n", "o", "p", "q", "r", "s", "t", "u", "v", "w", "x", "y", "z">>

LowerChar(c) ==
  IF \E i \in 1..Len(Upper) : Upper[i] = c
  THEN Lower[CHOOSE i \in 1..Len(Upper) : Upper[i] = c]
  ELSE c

ToLower(s) == [i \in 1..Len(s) |-> LowerChar(s[i])]

\* sub occurs in s as a contiguous run of characters.
Contains(s, sub) ==
  \E i \in 0..(Len(s) - Len(sub)) : SubSeq(s, i + 1, i + Len(sub)) = sub

\* title ILIKE '%sub%': case-insensitive substring.
ContainsIgnoreCase(s, sub) == Contains(ToLower(s), ToLower(sub))

(* ------------------------------ objects -------------------------------- *)

\* A JSON object or a parsed query string is a function from the keys it
\* holds to their values; Has is `key in object`.
Has(o, k) == k \in DOMAIN o

EmptyObj == [k \in {} |-> JNaN]

\* o with o[k] set to v, whether or not o held k.
Put(o, k, v) == [x \in (DOMAIN o) \cup {k} |-> IF x = k THEN v ELSE o[x]]

(* ------------------------- authorization gate -------------------------- *)

\* res.locals.user when no identity was attached to the request.
NoUser == [undefined |-> TRUE]

User(name, admin) == [username |-> name, isAdmin |-> admin]

\* What a request carries of its caller: the tier the gate grants it, and
\* the identity res.locals.user holds when the handler runs.  A logged-in
\* request whose identity did not reach res.locals is the case the apply
\* handler checks for itself.
Anonymous == [tier |-> "public", user |-> NoUser]

LoggedIn(name) == [tier |-> "logged-in", user |-> User(name, FALSE)]

LoggedInNoIdentity == [tier |-> "logged-in", user |-> NoUser]

Admin(name) == [tier |-> "admin", user |-> User(name, TRUE)]

\* ensureLoggedIn: "next" lets the request through to the handler.
ensureLoggedIn(ident) ==
  IF ident.tier = "public" THEN "UnauthorizedError" ELSE "next"

\* ensureAdmin.
ensureAdmin(ident) ==
  IF ident.tier = "public" THEN "UnauthorizedError"
  ELSE IF ident.tier # "admin" THEN "ForbiddenError"
  ELSE "next"

\* A route registered without middleware.
noGate(ident) == "next"

(* --------------------------- schema validator -------------------------- *)

NoBound == {}

Rule(name, type, required, lo, hi) ==
  [name |-> name, type |-> type, required |-> required, lo |-> lo, hi |-> hi]

\* schemas/jobNew.json
jobNewRules ==
  [ fields |-> << Rule("title", "string", TRUE, NoBound, NoBound),
                  Rule("salary", "number", FALSE, {0}, NoBound),
                  Rule("equity", "number", FALSE, {0}, {1}),
                  Rule("companyHandle", "string", TRUE, NoBound, NoBound) >>,
    additionalProperties |-> TRUE ]

\* schemas/jobUpdate.json: only the mutable fields may be present.
jobUpdateRules ==
  [ fields |-> << Rule("title", "string", FALSE, NoBound, NoBound),
                  Rule("salary", "number", FALSE, {0}, NoBound),
                  Rule("equity", "number", FALSE, {0}, {1}) >>,
    additionalProperties |-> FALSE ]

\* schemas/jobSearch.json
jobSearchRules ==
  [ fields |-> << Rule("minSalary", "number", FALSE, {0}, NoBound),
                  Rule("hasEquity", "boolean", FALSE, NoBound, NoBound),
                  Rule("title", "string", FALSE, NoBound, NoBound) >>,
    additionalProperties |-> FALSE ]

SchemaRules(schema) ==
  CASE schema = "jobNew" -> jobNewRules
    [] schema = "jobUpdate" -> jobUpdateRules
    [] schema = "jobSearch" -> jobSearchRules

\* The keys an object may hold, in the order their errors are listed.
KeyOrder == << "id", "title", "salary", "equity", "companyHandle",
               "minSalary", "hasEquity", "sort" >>

\* The violations of one field rule, in order.
RuleErrors(instance, rule) ==
  IF ~Has(instance, rule.name)
  THEN IF rule.required THEN << <<"requires property", rule.name>> >> ELSE <<>>
  ELSE LET v == instance[rule.name]
       IN  IF v.t # rule.type
           THEN << <<"is not of type", rule.name, rule.type>> >>
           ELSE (IF \E b \in rule.lo : v.t = "number" /\ v.n < b
                 THEN << <<"must be greater than or equal to", rule.name>> >>
                 ELSE <<>>)
                \o
                (IF \E b \in rule.hi : v.t = "number" /\ v.n > b
                 THEN << <<"must be less than or equal to", rule.name>> >>
                 ELSE <<>>)

RECURSIVE FieldErrors(_, _, _)
FieldErrors(instance, fields, i) ==
  IF i > Len(fields) THEN <<>>
  ELSE RuleErrors(instance, fields[i]) \o FieldErrors(instance, fields, i + 1)

RECURSIVE AdditionalErrors(_, _, _)
AdditionalErrors(instance, fields, i) ==
  IF i > Len(KeyOrder) THEN <<>>
  ELSE (IF Has(instance, KeyOrder[i])
           /\ ~\E j \in 1..Len(fields) : fields[j].name = KeyOrder[i]
        THEN << <<"additionalProperty", KeyOrder[i]>> >>
        ELSE <<>>)
       \o AdditionalErrors(instance, fields, i + 1)

\* jsonschema.validate(instance, schema): the validity flag and every
\* violation, the fields' in declaration order.
Validate(instance, schema) ==
  LET rules == SchemaRules(schema)
      errs == FieldErrors(instance, rules.fields, 1)
              \o (IF rules.additionalProperties THEN <<>>
                  ELSE AdditionalErrors(instance, rules.fields, 1))
  IN  [valid |-> errs = <<>>, errors |-> errs]

(* --------------------- the store and its collaborators ----------------- *)

\* The companies table: handle and name.
Companies ==
  { [handle |-> <<"c", "1">>, name |-> <<"C", "o", "1">>],
    [handle |-> <<"c", "2">>, name |-> <<"C", "o", "2">>] }

\* The company a handle names; a handle that names none has no name.
CompanyOf(handle) ==
  IF \E c \in Companies : c.handle = handle
  THEN CHOOSE c \in Companies : c.handle = handle
  ELSE [handle |-> handle, name |-> <<>>]

\* An optional column is the empty set (NULL) or the set of its one value.
Null == {}

NumberOf(data, k) == IF Has(data, k) /\ data[k].t = "number" THEN {data[k].n} ELSE Null

StringOf(data, k) == IF Has(data, k) THEN data[k].s ELSE <<>>

\* A row of the jobs table.
JobRow(id, title, salary, equity, handle) ==
  [id |-> id, title |-> title, salary |-> salary, equity |-> equity,
   companyHandle |-> handle]

\* Whether a row's id is the id a caller gave, as a number or as the text of
\* a path parameter.
IdMatches(row, id) ==
  LET n == IF id.t = "string" THEN ToNumber(id.s) ELSE id
  IN  n.t = "number" /\ row.id = n.n

Found(store, id) == {row \in store : IdMatches(row, id)}

Ok(val) == [ok |-> TRUE, err |-> "", val |-> val]

Throw(err) == [ok |-> FALSE, err |-> err, val |-> {}]

\* Job.create(data): the row inserted, with its generated id.
JobCreate(id, data) ==
  JobRow(id, StringOf(data, "title"), NumberOf(data, "salary"),
         NumberOf(data, "equity"), StringOf(data, "companyHandle"))

\* The selection of Job.findAll: salary floor, equity presence, partial
\* case-insensitive title.
Matches(row, filter) ==
  /\ Has(filter, "minSalary") => \E x \in row.salary : x >= filter["minSalary"].n
  /\ (Has(filter, "hasEquity") /\ filter["hasEquity"] = JBool(TRUE))
        => \E e \in row.equity : e > 0
  /\ Has(filter, "title") => ContainsIgnoreCase(row.title, filter["title"].s)

WithCompanyName(row) ==
  [id |-> row.id, title |-> row.title, salary |-> row.salary, equity |-> row.equity,
   companyHandle |-> row.companyHandle,
   companyName |-> CompanyOf(row.companyHandle).name]

\* Job.findAll(filter): the matching rows, each with its company's name.
JobFindAll(store, filter) ==
  {WithCompanyName(row) : row \in {r \in store : Matches(r, filter)}}

\* Job.get(id): { id, title, salary, equity, company }.
JobGet(store, id) ==
  IF Found(store, id) = {} THEN Throw("NotFoundError")
  ELSE LET row == CHOOSE r \in Found(store, id) : TRUE
       IN  Ok([id |-> row.id, title |-> row.title, salary |-> row.salary,
               equity |-> row.equity, company |-> CompanyOf(row.companyHandle)])

\* The row with the columns that data names set to data's values.
Updated(row, data) ==
  JobRow(IF Has(data, "id") /\ data["id"].t = "number" THEN data["id"].n ELSE row.id,
         IF Has(data, "title") THEN data["title"].s ELSE row.title,
         IF Has(data, "salary") THEN NumberOf(data, "salary") ELSE row.salary,
         IF Has(data, "equity") THEN NumberOf(data, "equity") ELSE row.equity,
         IF Has(data, "companyHandle") THEN data["companyHandle"].s
         ELSE row.companyHandle)

\* Job.update(id, data): the updated row, or NotFoundError.
JobUpdate(store, id, data) ==
  IF Found(store, id) = {} THEN Throw("NotFoundError")
  ELSE Ok(Updated(CHOOSE r \in Found(store, id) : TRUE, data))

\* Job.remove(id): NotFoundError unless a row has the id.
JobRemove(store, id) ==
  IF Found(store, id) = {} THEN Throw("NotFoundError") ELSE Ok(id)

\* A row of the applications table.
Application(username, jobId) == [username |-> username, job_id |-> jobId]

Applied(apps, username, jobId) ==
  \E i \in 1..Len(apps) : apps[i] = Application(username, jobId)

\* User.applyToJob(username, jobId): NotFoundError unless the job exists;
\* the association (username, jobId), inserted unless it is there already.
UserApplyToJob(store, apps, username, jobId) ==
  IF Found(store, jobId) = {} THEN Throw("NotFoundError")
  ELSE Ok(Application(username, jobId.n))

\* The applications table after User.applyToJob succeeded.
ApplicationsAfter(apps, username, jobId) ==
  IF Applied(apps, username, jobId.n) THEN apps
  ELSE Append(apps, Application(username, jobId.n))

(* ------------------------------ requests ------------------------------- *)

NoCall == [fn |-> "", args |-> <<>>]

Call(fn, args) == [fn |-> fn, args |-> args]

NoResponse == [key |-> ""]

\* res.status(status).json({ key: val })
Json(status, key, val) == [key |-> key, status |-> status, val |-> val]

\* next(err): the error's class and, for a BadRequestError, its message list.
Error(name, errors) == [key |-> "error", name |-> name, errors |-> errors]

\* A request: its route, caller, path parameter id, body and query as
\* received; pc is "await" while the collaborator call `call` is pending
\* and "done" once `res` is its response.
Request(route, ident, id, body, query) ==
  [pc |-> "start", route |-> route, ident |-> ident, id |-> id, body |-> body,
   query |-> query, call |-> NoCall, res |-> NoResponse]

IdleRequest ==
  [pc |-> "idle", route |-> "", ident |-> Anonymous, id |-> <<>>, body |-> EmptyObj,
   query |-> EmptyObj, call |-> NoCall, res |-> NoResponse]

Failed(req, name, errors) == [req EXCEPT !.pc = "done", !.res = Error(name, errors)]

Awaiting(req, call) == [req EXCEPT !.pc = "await", !.call = call]

Responded(req, res) == [req EXCEPT !.pc = "done", !.res = res]

\* A slot takes a new request when it holds none in flight.
Free(s) == reqs[s].pc \in {"idle", "done"} /\ received < MaxReqs

Pending(s, route) == reqs[s].pc = "await" /\ reqs[s].route = route

(* ------------------------------- routes -------------------------------- *)

jobNewSchema == "jobNew"

\* Mutant: PATCH /:id validates against the schema of POST /.
jobUpdateSchemaIsNew == "jobNew"

jobUpdateSchema == "jobUpdate"

jobSearchSchema == "jobSearch"

\* Mutant: DELETE /:id registered without ensureAdmin.
MiddlewareDeleteOpen(route) ==
  CASE route = "POST /" -> "ensureAdmin"
    [] route = "GET /" -> "none"
    [] route = "GET /:id" -> "none"
    [] route = "PATCH /:id" -> "ensureAdmin"
    [] route = "DELETE /:id" -> "none"
    [] route = "POST /:id/apply" -> "ensureLoggedIn"

\* The middleware each route is registered with.
Middleware(route) ==
  CASE route = "POST /" -> "ensureAdmin"
    [] route = "GET /" -> "none"
    [] route = "GET /:id" -> "none"
    [] route = "PATCH /:id" -> "ensureAdmin"
    [] route = "DELETE /:id" -> "ensureAdmin"
    [] route = "POST /:id/apply" -> "ensureLoggedIn"

\* The outcome of the route's middleware for a caller.
Gate(route, ident) ==
  CASE Middleware(route) = "ensureAdmin" -> ensureAdmin(ident)
    [] Middleware(route) = "ensureLoggedIn" -> ensureLoggedIn(ident)
    [] OTHER -> noGate(ident)

\* Mutant: the validator's verdict is ignored.
RejectedNever(validator) == FALSE

\* if (!validator.valid) throw new BadRequestError(errs)
Rejected(validator) == ~validator.valid

\* errs = validator.errors.map(e => e.stack)
Stacks(validator) == validator.errors

\* if (q.minSalary !== undefined) q.minSalary = +q.minSalary;
NormalizeMinSalary(q) ==
  IF Has(q, "minSalary") THEN Put(q, "minSalary", ToNumber(q["minSalary"].s)) ELSE q

\* Mutant: q.hasEquity compared regardless of case.
NormalizeHasEquityAnyCase(q) ==
  Put(q, "hasEquity",
      JBool(Has(q, "hasEquity")
            /\ ToLower(q["hasEquity"].s) = <<"t", "r", "u", "e">>))

\* Mutant: q.hasEquity = Boolean(q.hasEquity), true of every non-empty string.
NormalizeHasEquityTruthy(q) ==
  Put(q, "hasEquity", JBool(Has(q, "hasEquity") /\ q["hasEquity"].s # <<>>))

\* q.hasEquity = q.hasEquity === "true";
NormalizeHasEquity(q) ==
  Put(q, "hasEquity",
      JBool(Has(q, "hasEquity") /\ q["hasEquity"] = JStr(<<"t", "r", "u", "e">>)))

\* The filter GET / validates and hands to Job.findAll.
Normalize(query) == NormalizeHasEquity(NormalizeMinSalary(query))

\* Mutant: the handler does not check res.locals.user.
UserMissingNever(user) == FALSE

\* if (!res.locals.user)
UserMissing(user) == user = NoUser

\* Job.create(req.body)
CreateArgs(req) == <<req.body>>

\* POST /: the middleware, the validation of the body, the call.
PostJob(s, callers, bodies) ==
  /\ Free(s)
  /\ nextId + Cardinality({x \in Slots : Pending(x, "POST /")}) <= MaxJobs
  /\ \E ident \in callers, body \in bodies :
       LET req == Request("POST /", ident, <<>>, body, EmptyObj)
           gate == Gate("POST /", ident)
           validator == Validate(body, jobNewSchema)
       IN  reqs' = [reqs EXCEPT ![s] =
             IF gate # "next" THEN Failed(req, gate, <<>>)
             ELSE IF Rejected(validator)
                  THEN Failed(req, "BadRequestError", Stacks(validator))
                  ELSE Awaiting(req, Call("Job.create", CreateArgs(req)))]
  /\ received' = received + 1
  /\ UNCHANGED <<jobs, nextId, applications>>

\* POST /: Job.create inserts the row; 201 { job }.
PostJobDone(s) ==
  /\ Pending(s, "POST /")
  /\ LET job == JobCreate(nextId, reqs[s].call.args[1])
     IN  /\ jobs' = jobs \cup {job}
         /\ nextId' = nextId + 1
         /\ reqs' = [reqs EXCEPT ![s] = Responded(@, Json(201, "job", job))]
  /\ UNCHANGED <<applications, received>>

\* GET /: the query is normalized in place, validated, and handed on.
GetJobs(s, callers, queries) ==
  /\ Free(s)
  /\ \E ident \in callers, query \in queries :
       LET req == Request("GET /", ident, <<>>, EmptyObj, query)
           gate == Gate("GET /", ident)
           q == Normalize(query)
           validator == Validate(q, jobSearchSchema)
       IN  reqs' = [reqs EXCEPT ![s] =
             IF gate # "next" THEN Failed(req, gate, <<>>)
             ELSE IF Rejected(validator)
                  THEN Failed(req, "BadRequestError", Stacks(validator))
                  ELSE Awaiting(req, Call("Job.findAll", <<q>>))]
  /\ received' = received + 1
  /\ UNCHANGED <<jobs, nextId, applications>>

\* GET /: Job.findAll reads the store; { jobs }.
GetJobsDone(s) ==
  /\ Pending(s, "GET /")
  /\ reqs' = [reqs EXCEPT ![s] =
       Responded(@, Json(200, "jobs", JobFindAll(jobs, reqs[s].call.args[1])))]
  /\ UNCHANGED <<jobs, nextId, applications, received>>

\* Mutant: Job.get is handed a path parameter the route does not have.
GetArgsWrongParam(req) == <<JUndefined>>

\* Job.get(req.params.id)
GetArgs(req) == <<JStr(req.id)>>

\* GET /:id: the call.
GetJob(s, callers, ids) ==
  /\ Free(s)
  /\ \E ident \in callers, id \in ids :
       LET req == Request("GET /:id", ident, id, EmptyObj, EmptyObj)
           gate == Gate("GET /:id", ident)
       IN  reqs' = [reqs EXCEPT ![s] =
             IF gate # "next" THEN Failed(req, gate, <<>>)
             ELSE Awaiting(req, Call("Job.get", GetArgs(req)))]
  /\ received' = received + 1
  /\ UNCHANGED <<jobs, nextId, applications>>

\* GET /:id: { job }, or the collaborator's error.
GetJobDone(s) ==
  /\ Pending(s, "GET /:id")
  /\ LET result == JobGet(jobs, reqs[s].call.args[1])
     IN  reqs' = [reqs EXCEPT ![s] =
           IF result.ok THEN Responded(@, Json(200, "job", result.val))
           ELSE Failed(@, result.err, <<>>)]
  /\ UNCHANGED <<jobs, nextId, applications, received>>

\* PATCH /:id: the middleware, the validation of the body, the call.
PatchJob(s, callers, ids, bodies) ==
  /\ Free(s)
  /\ \E ident \in callers, id \in ids, body \in bodies :
       LET req == Request("PATCH /:id", ident, id, body, EmptyObj)
           gate == Gate("PATCH /:id", ident)
           validator == Validate(body, jobUpdateSchema)
       IN  reqs' = [reqs EXCEPT ![s] =
             IF gate # "next" THEN Failed(req, gate, <<>>)
             ELSE IF Rejected(validator)
                  THEN Failed(req, "BadRequestError", Stacks(validator))
                  ELSE Awaiting(req, Call("Job.update", <<JStr(id), body>>))]
  /\ received' = received + 1
  /\ UNCHANGED <<jobs, nextId, applications>>

\* PATCH /:id: Job.update rewrites the row; { job }, or its error.
PatchJobDone(s) ==
  /\ Pending(s, "PATCH /:id")
  /\ LET id == reqs[s].call.args[1]
         result == JobUpdate(jobs, id, reqs[s].call.args[2])
     IN  /\ jobs' = IF result.ok THEN (jobs \ Found(jobs, id)) \cup {result.val}
                    ELSE jobs
         /\ reqs' = [reqs EXCEPT ![s] =
              IF result.ok THEN Responded(@, Json(200, "job", result.val))
              ELSE Failed(@, result.err, <<>>)]
  /\ UNCHANGED <<nextId, applications, received>>

\* DELETE /:id: the middleware and the call.
DeleteJob(s, callers, ids) ==
  /\ Free(s)
  /\ \E ident \in callers, id \in ids :
       LET req == Request("DELETE /:id", ident, id, EmptyObj, EmptyObj)
           gate == Gate("DELETE /:id", ident)
       IN  reqs' = [reqs EXCEPT ![s] =
             IF gate # "next" THEN Failed(req, gate, <<>>)
             ELSE Awaiting(req, Call("Job.remove", <<JStr(id)>>))]
  /\ received' = received + 1
  /\ UNCHANGED <<jobs, nextId, applications>>

\* Mutant: the acknowledgment is sent whether or not Job.remove threw.
DeleteResponseAlways(req, result) ==
  Responded(req, Json(200, "deleted", ToNumber(req.id)))

\* What DELETE /:id answers once Job.remove has settled.
DeleteResponse(req, result) ==
  IF result.ok THEN Responded(req, Json(200, "deleted", ToNumber(req.id)))
  ELSE Failed(req, result.err, <<>>)

\* DELETE /:id: Job.remove deletes the row; { deleted: +id }, or its error.
DeleteJobDone(s) ==
  /\ Pending(s, "DELETE /:id")
  /\ LET id == reqs[s].call.args[1]
         result == JobRemove(jobs, id)
     IN  /\ jobs' = IF result.ok THEN jobs \ Found(jobs, id) ELSE jobs
         /\ reqs' = [reqs EXCEPT ![s] = DeleteResponse(@, result)]
  /\ UNCHANGED <<nextId, applications, received>>

\* The username and job id POST /:id/apply hands to User.applyToJob.
ApplyArgs(req) == <<req.ident.user.username, ToNumber(req.id)>>

\* POST /:id/apply: the middleware, the handler's own identity check, the
\* call.  Reading the username of an absent user throws a TypeError.
PostApply(s, callers, ids) ==
  /\ Free(s)
  /\ \E ident \in callers, id \in ids :
       LET req == Request("POST /:id/apply", ident, id, EmptyObj, EmptyObj)
           gate == Gate("POST /:id/apply", ident)
       IN  reqs' = [reqs EXCEPT ![s] =
             IF gate # "next" THEN Failed(req, gate, <<>>)
             ELSE IF UserMissing(ident.user)
                  THEN Failed(req, "UnauthorizedError", <<>>)
                  ELSE IF ident.user = NoUser THEN Failed(req, "TypeError", <<>>)
                  ELSE Awaiting(req, Call("User.applyToJob", ApplyArgs(req)))]
  /\ received' = received + 1
  /\ UNCHANGED <<jobs, nextId, applications>>

\* Mutant: the response reads application.jobId, a property the row lacks.
ApplyResponseWrongColumn(req, result) ==
  IF result.ok THEN Responded(req, Json(200, "applied", JUndefined))
  ELSE Failed(req, result.err, <<>>)

\* What POST /:id/apply answers once User.applyToJob has settled.
ApplyResponse(req, result) ==
  IF result.ok THEN Responded(req, Json(200, "applied", JNum(result.val.job_id)))
  ELSE Failed(req, result.err, <<>>)

\* POST /:id/apply: User.applyToJob records the association;
\* { applied: application.job_id }, or its error.
PostApplyDone(s) ==
  /\ Pending(s, "POST /:id/apply")
  /\ LET username == reqs[s].call.args[1]
         jobId == reqs[s].call.args[2]
         result == UserApplyToJob(jobs, applications, username, jobId)
     IN  /\ applications' = IF result.ok
                            THEN ApplicationsAfter(applications, username, jobId)
                            ELSE applications
         /\ reqs' = [reqs EXCEPT ![s] = ApplyResponse(@, result)]
  /\ UNCHANGED <<jobs, nextId, received>>

(* ------------------------------- inputs -------------------------------- *)

u1 == <<"u", "1">>

adm == <<"a", "d", "m">>

AnyCaller == {Anonymous, LoggedIn(u1), LoggedInNoIdentity, Admin(adm)}

ThreeTiers == {Anonymous, LoggedIn(u1), Admin(adm)}

\* Path parameters: the ids of the two seeded jobs, the first generated id,
\* and a parameter that is no number.
PathIds == {<<"1">>, <<"2">>, <<"3">>, <<"x">>}

c1 == <<"c", "1">>

c2 == <<"c", "2">>

\* The store every behaviour starts from: an engineer's job with equity and
\* a sales job without.
SeedJobs ==
  { JobRow(1, <<"E", "n", "g", "i", "n", "e", "e", "r">>, {60}, {1}, c1),
    JobRow(2, <<"S", "a", "l", "e", "s", " ", "E", "n", "g">>, {70}, {0}, c2) }

NewDev ==
  [title |-> JStr(<<"D", "e", "v">>), salary |-> JNum(50), equity |-> JNum(0),
   companyHandle |-> JStr(c1)]

NewIntern == [title |-> JStr(<<"I", "n", "t", "e", "r", "n">>), companyHandle |-> JStr(c2)]

\* No title, and a negative salary: two violations.
NewNoTitle == [salary |-> JNum(0 - 5), companyHandle |-> JStr(c1)]

NewNumericTitle == [title |-> JNum(7), companyHandle |-> JStr(c1)]

NewBodies == {NewDev, NewIntern, NewNoTitle, NewNumericTitle}

SetTitle == [title |-> JStr(<<"L", "e", "a", "d">>)]

SetPay == [salary |-> JNum(80), equity |-> JNum(1)]

SetId == [id |-> JNum(3), title |-> JStr(<<"L", "e", "a", "d">>)]

SetCompany == [companyHandle |-> JStr(c1), salary |-> JNum(80)]

SetNegativeSalary == [salary |-> JNum(0 - 5)]

\* A body that would be a valid new job.
SetAll == [title |-> JStr(<<"L", "e", "a", "d">>), companyHandle |-> JStr(c1)]

UpdateBodies == {SetTitle, SetPay, SetId, SetCompany, SetAll, SetNegativeSalary}

true == <<"t", "r", "u", "e">>

\* The raw values a hasEquity parameter takes.
RawEquity ==
  { true, <<"f", "a", "l", "s", "e">>, <<"T", "R", "U", "E">>, <<"1">>, <<>>,
    <<"t", "r", "u", "e", " ">> }

\* The raw values a minSalary parameter takes.
RawSalary == { <<"6", "5">>, <<"0">>, <<" ", "7", "0">>, <<"-", "5">>, <<"a", "b", "c">>,
               <<>>, <<" ">>, <<"6", "5", "k">> }

\* The raw values a title parameter takes.
RawTitle == { <<"e", "n", "g">>, <<"S", "A", "L">>, <<"d", "e", "v">>, <<>> }

Param(k, raw) == [x \in {k} |-> JStr(raw)]

\* Queries: none, one, or all three of the known parameters, and one with
\* a parameter the search schema does not know.
Queries ==
  {EmptyObj}
  \cup {Param("minSalary", r) : r \in RawSalary}
  \cup {Param("hasEquity", r) : r \in RawEquity}
  \cup {Param("title", r) : r \in RawTitle}
  \cup { [minSalary |-> JStr(m), hasEquity |-> JStr(e), title |-> JStr(<<"e", "n", "g">>)] :
           m \in {<<"5", "0">>, <<"6", "5">>}, e \in {true, <<"f", "a", "l", "s", "e">>} }
  \cup { Param("sort", <<"i", "d">>) }

(* --------------------------- specifications ---------------------------- *)

Init ==
  /\ jobs = SeedJobs
  /\ nextId = Cardinality(SeedJobs) + 1
  /\ applications = <<>>
  /\ reqs = [s \in Slots |-> IdleRequest]
  /\ received = 0

\* The whole router, each route with a valid and an invalid input.
Next ==
  \/ \E s \in Slots : PostJob(s, ThreeTiers, {NewDev, NewNoTitle})
  \/ \E s \in Slots : PostJobDone(s)
  \/ \E s \in Slots : GetJobs(s, {Anonymous, Admin(adm)},
                              {Param("minSalary", <<"6", "5">>), Param("sort", <<"i", "d">>)})
  \/ \E s \in Slots : GetJobsDone(s)
  \/ \E s \in Slots : GetJob(s, {Anonymous, Admin(adm)}, {<<"1">>, <<"3">>})
  \/ \E s \in Slots : GetJobDone(s)
  \/ \E s \in Slots : PatchJob(s, ThreeTiers, {<<"1">>, <<"3">>}, {SetTitle, SetCompany})
  \/ \E s \in Slots : PatchJobDone(s)
  \/ \E s \in Slots : DeleteJob(s, ThreeTiers, {<<"1">>, <<"3">>})
  \/ \E s \in Slots : DeleteJobDone(s)
  \/ \E s \in Slots : PostApply(s, AnyCaller, {<<"1">>, <<"3">>})
  \/ \E s \in Slots : PostApplyDone(s)

Spec == Init /\ [][Next]_vars

\* The application workflow, with deletions of the jobs applied to.
NextApply ==
  \/ \E s \in Slots : PostApply(s, AnyCaller, PathIds)
  \/ \E s \in Slots : PostApplyDone(s)
  \/ \E s \in Slots : DeleteJob(s, {Admin(adm)}, {<<"1">>, <<"2">>})
  \/ \E s \in Slots : DeleteJobDone(s)

SpecApply == Init /\ [][NextApply]_vars

\* The read query over every query, with creations and deletions changing
\* the store it reads.
NextSearch ==
  \/ \E s \in Slots : GetJobs(s, {Anonymous}, Queries)
  \/ \E s \in Slots : GetJobsDone(s)
  \/ \E s \in Slots : PostJob(s, {Admin(adm)}, {NewDev, NewIntern})
  \/ \E s \in Slots : PostJobDone(s)
  \/ \E s \in Slots : DeleteJob(s, {Admin(adm)}, {<<"1">>})
  \/ \E s \in Slots : DeleteJobDone(s)

SpecSearch == Init /\ [][NextSearch]_vars

\* The mutation gateway and get-by-id, over every body and path parameter.
NextJobs ==
  \/ \E s \in Slots : PostJob(s, {Admin(adm)}, NewBodies)
  \/ \E s \in Slots : PostJobDone(s)
  \/ \E s \in Slots : GetJob(s, {Anonymous}, PathIds)
  \/ \E s \in Slots : GetJobDone(s)
  \/ \E s \in Slots : PatchJob(s, {Admin(adm)}, PathIds, UpdateBodies)
  \/ \E s \in Slots : PatchJobDone(s)
  \/ \E s \in Slots : DeleteJob(s, {Admin(adm), LoggedIn(u1)}, PathIds)
  \/ \E s \in Slots : DeleteJobDone(s)

SpecJobs == Init /\ [][NextJobs]_vars

(* ------------------------------- claims -------------------------------- *)

\* Slot s is handed a new request, or the request it holds moves on.
Moved(s) == reqs'[s] # reqs[s]

\* The request of slot s has been answered.
Answered(s) == reqs[s].pc = "done"

\* The request of slot s is answered in this step.
Completes(s, route) == Pending(s, route) /\ reqs'[s].pc = "done"

\* The number of rows of the applications table that associate u with j.
Associations(apps, u, j) ==
  Cardinality({i \in 1..Len(apps) : apps[i] = Application(u, j)})

Usernames == {u1, adm}

\* C1.  An apply request of user u for a job j that exists when
\* User.applyToJob runs is answered 200 { applied: j } and leaves exactly one
\* association (u, j) in the store, whether or not (u, j) was there before
\* and whatever the other slot's request does in between; and a store that
\* holds exactly one association (u, j) holds exactly one ever after.
C1_ApplyIdempotent ==
  [][ /\ \A s \in Slots :
           (Completes(s, "POST /:id/apply")
              /\ Found(jobs, ToNumber(reqs[s].id)) # {})
           => /\ reqs'[s].res = Json(200, "applied", ToNumber(reqs[s].id))
              /\ Associations(applications', reqs[s].ident.user.username,
                              ToNumber(reqs[s].id).n) = 1
      /\ \A u \in Usernames, j \in 1..MaxJobs :
           Associations(applications, u, j) = 1
           => Associations(applications', u, j) = 1 ]_vars

\* Both slots hold an answered apply request of the same user for the same
\* job, both were answered { applied: 1 }, and the store holds the
\* association once.
C1_Witness ==
  /\ \A s \in Slots :
       /\ Answered(s)
       /\ reqs[s].route = "POST /:id/apply"
       /\ reqs[s].ident = LoggedIn(u1)
       /\ reqs[s].id = <<"1">>
       /\ reqs[s].res = Json(200, "applied", JNum(1))
  /\ Associations(applications, u1, 1) = 1
  /\ Len(applications) = 1

\* C2.  An apply request that passed ensureLoggedIn and reaches the handler
\* with no res.locals.user is answered UnauthorizedError in the step that
\* receives it, issues no call to User.applyToJob, and leaves the
\* applications table as it was.
C2_ApplyNeedsIdentity ==
  [][ \A s \in Slots :
        (Moved(s)
           /\ reqs'[s].route = "POST /:id/apply"
           /\ Gate("POST /:id/apply", reqs'[s].ident) = "next"
           /\ reqs'[s].ident.user = NoUser)
        => /\ reqs'[s].pc = "done"
           /\ reqs'[s].res = Error("UnauthorizedError", <<>>)
           /\ reqs'[s].call = NoCall
           /\ applications' = applications ]_vars

\* A logged-in request without identity was answered UnauthorizedError for a
\* job that exists, and nothing was recorded.
C2_Witness ==
  \E s \in Slots :
    /\ Answered(s)
    /\ reqs[s].route = "POST /:id/apply"
    /\ reqs[s].ident = LoggedInNoIdentity
    /\ Found(jobs, ToNumber(reqs[s].id)) # {}
    /\ reqs[s].res = Error("UnauthorizedError", <<>>)
    /\ applications = <<>>

\* What the route validates, and against which schema.
C3_Validation(req) ==
  CASE req.route = "POST /" -> Validate(req.body, "jobNew")
    [] req.route = "GET /" -> Validate(Normalize(req.query), "jobSearch")
    [] req.route = "PATCH /:id" -> Validate(req.body, "jobUpdate")

C3_Validated == {"POST /", "GET /", "PATCH /:id"}

\* C3.  A create, search or update request that passed the gate and whose
\* body or filter the validator reports invalid is answered, in the step
\* that receives it, BadRequestError with every reported error, issues no
\* call and leaves the jobs as they were; a request of these routes that
\* holds a call to Job.create, Job.findAll or Job.update passed validation.
C3_InvalidNeverStored ==
  [][ \A s \in Slots :
        (Moved(s) /\ reqs'[s].route \in C3_Validated
           /\ Gate(reqs'[s].route, reqs'[s].ident) = "next")
        => IF C3_Validation(reqs'[s]).valid
           THEN reqs'[s].res.key # "error" \/ reqs'[s].res.name # "BadRequestError"
           ELSE /\ reqs'[s].pc = "done"
                /\ reqs'[s].res =
                     Error("BadRequestError", C3_Validation(reqs'[s]).errors)
                /\ reqs'[s].call = NoCall
                /\ jobs' = jobs ]_vars

\* An admin's create with two violations (no title, negative salary) was
\* answered BadRequestError listing both, and the store is the seeded one.
C3_Witness ==
  \E s \in Slots :
    /\ Answered(s)
    /\ reqs[s].route = "POST /"
    /\ reqs[s].ident = Admin(adm)
    /\ reqs[s].res.key = "error"
    /\ reqs[s].res.name = "BadRequestError"
    /\ Len(reqs[s].res.errors) = 2
    /\ reqs[s].call = NoCall
    /\ jobs = SeedJobs

C4_AdminRoutes == {"POST /", "PATCH /:id", "DELETE /:id"}

C4_PublicRoutes == {"GET /", "GET /:id"}

\* C4.  A create, update or delete request of a caller below admin tier is
\* answered with an error in the step that receives it, issues no call and
\* leaves the jobs as they were; the jobs change only in the step that
\* completes a create, update or delete request of an admin; and a search
\* or get-by-id request of any caller goes on to its collaborator call.
C4_OnlyAdminsWrite ==
  [][ /\ \A s \in Slots :
           (Moved(s) /\ reqs'[s].route \in C4_AdminRoutes
              /\ reqs'[s].ident.tier # "admin")
           => /\ reqs'[s].pc = "done"
              /\ reqs'[s].res.key = "error"
              /\ reqs'[s].res.name \in {"UnauthorizedError", "ForbiddenError"}
              /\ reqs'[s].call = NoCall
              /\ jobs' = jobs
      /\ jobs' # jobs
           => \E s \in Slots :
                /\ reqs[s].route \in C4_AdminRoutes
                /\ Completes(s, reqs[s].route)
                /\ reqs[s].ident.tier = "admin"
      /\ \A s \in Slots :
           (Moved(s) /\ reqs'[s].route \in C4_PublicRoutes)
           => \/ reqs'[s].res.key # "error"
              \/ reqs'[s].res.name \notin {"UnauthorizedError", "ForbiddenError"} ]_vars

\* A logged-in caller's delete of an existing job was refused and the job
\* is still there, while an anonymous search was served.
C4_Witness ==
  \E s, x \in Slots :
    /\ Answered(s)
    /\ reqs[s].route = "DELETE /:id"
    /\ reqs[s].ident = LoggedIn(u1)
    /\ reqs[s].id = <<"1">>
    /\ reqs[s].res = Error("ForbiddenError", <<>>)
    /\ Found(jobs, JNum(1)) # {}
    /\ Answered(x)
    /\ reqs[x].route = "GET /"
    /\ reqs[x].ident = Anonymous
    /\ reqs[x].res.key = "jobs"

\* C5.  The filter a search request hands to Job.findAll carries a boolean
\* hasEquity, which is true exactly when the query held the parameter
\* hasEquity with the value "true", character for character.
C5_HasEquityOnlyTrue ==
  \A s \in Slots :
    (reqs[s].route = "GET /" /\ reqs[s].call.fn = "Job.findAll")
    => LET filter == reqs[s].call.args[1]
           raw == reqs[s].query
       IN  /\ Has(filter, "hasEquity")
           /\ filter["hasEquity"].t = "boolean"
           /\ filter["hasEquity"].n = 1
                <=> (Has(raw, "hasEquity") /\ raw["hasEquity"].s = <<"t", "r", "u", "e">>)

\* A search with hasEquity=TRUE was served with the filter's hasEquity false
\* and returned the seeded job that has no equity.
C5_Witness ==
  \E s \in Slots :
    /\ Answered(s)
    /\ reqs[s].route = "GET /"
    /\ Has(reqs[s].query, "hasEquity")
    /\ reqs[s].query["hasEquity"].s = <<"T", "R", "U", "E">>
    /\ reqs[s].call.args[1]["hasEquity"] = JBool(FALSE)
    /\ reqs[s].res.key = "jobs"
    /\ \E r \in reqs[s].res.val : r.id = 2

\* The rows the claim selects, stated on the query as received.
C6_Selected(row, raw) ==
  /\ Has(raw, "minSalary")
       => \E x \in row.salary : x >= ToNumber(raw["minSalary"].s).n
  /\ (Has(raw, "hasEquity") /\ raw["hasEquity"].s = <<"t", "r", "u", "e">>)
       => \E e \in row.equity : e > 0
  /\ Has(raw, "title") => ContainsIgnoreCase(row.title, raw["title"].s)

\* C6.  A search request that passed validation is answered 200 { jobs }
\* with exactly the rows of the store, as it is when Job.findAll runs, that
\* satisfy: minSalary absent or salary >= minSalary; hasEquity not "true" or
\* equity > 0; title absent or contained in the row's title regardless of
\* case.  Each row carries its company's name.
C6_SearchSelectsExactly ==
  [][ \A s \in Slots :
        Completes(s, "GET /")
        => reqs'[s].res =
             Json(200, "jobs",
                  {WithCompanyName(row) :
                     row \in {r \in jobs : C6_Selected(r, reqs[s].query)}}) ]_vars

\* The scenario of the specification: minSalary=50, hasEquity=true, title=eng
\* over the two seeded jobs returns the first alone.
C6_Witness ==
  \E s \in Slots :
    /\ Answered(s)
    /\ reqs[s].route = "GET /"
    /\ reqs[s].query = [minSalary |-> JStr(<<"5", "0">>), hasEquity |-> JStr(true),
                        title |-> JStr(<<"e", "n", "g">>)]
    /\ jobs = SeedJobs
    /\ reqs[s].res.key = "jobs"
    /\ {r.id : r \in reqs[s].res.val} = {1}

\* C7.  An update request of an admin whose body holds id or companyHandle
\* is answered BadRequestError in the step that receives it, issues no call
\* to Job.update, and leaves every job as it was.
C7_UpdateRejectsImmutable ==
  [][ \A s \in Slots :
        (Moved(s) /\ reqs'[s].route = "PATCH /:id"
           /\ Gate("PATCH /:id", reqs'[s].ident) = "next"
           /\ (Has(reqs'[s].body, "id") \/ Has(reqs'[s].body, "companyHandle")))
        => /\ reqs'[s].pc = "done"
           /\ reqs'[s].res.key = "error"
           /\ reqs'[s].res.name = "BadRequestError"
           /\ reqs'[s].res.errors # <<>>
           /\ reqs'[s].call = NoCall
           /\ jobs' = jobs ]_vars

\* An admin's update of job 1 with a title and a companyHandle, both of
\* valid type, was answered BadRequestError and the store is the seeded one.
C7_Witness ==
  \E s \in Slots :
    /\ Answered(s)
    /\ reqs[s].route = "PATCH /:id"
    /\ reqs[s].ident = Admin(adm)
    /\ reqs[s].id = <<"1">>
    /\ reqs[s].body = SetAll
    /\ reqs[s].res.key = "error"
    /\ reqs[s].res.name = "BadRequestError"
    /\ jobs = SeedJobs

\* C8.  A delete request for an id that no job has when Job.remove runs is
\* answered NotFoundError and leaves the jobs as they were; a delete request
\* is answered { deleted: id } only in the step in which Job.remove removes
\* the job with that id, and then id is the number of the path parameter.
C8_DeleteMissingNotFound ==
  [][ \A s \in Slots :
        Completes(s, "DELETE /:id")
        => /\ Found(jobs, JStr(reqs[s].id)) = {}
                => /\ reqs'[s].res = Error("NotFoundError", <<>>)
                   /\ jobs' = jobs
           /\ reqs'[s].res.key = "deleted"
                => /\ Found(jobs, JStr(reqs[s].id)) # {}
                   /\ jobs' = jobs \ Found(jobs, JStr(reqs[s].id))
                   /\ Found(jobs', JStr(reqs[s].id)) = {}
                   /\ reqs'[s].res = Json(200, "deleted", ToNumber(reqs[s].id)) ]_vars

\* Two admins' deletes of job 1: one was acknowledged, the other, which ran
\* when the job was gone, was answered NotFoundError; job 2 is untouched.
C8_Witness ==
  \E s, x \in Slots :
    /\ Answered(s) /\ Answered(x)
    /\ reqs[s].route = "DELETE /:id" /\ reqs[x].route = "DELETE /:id"
    /\ reqs[s].id = <<"1">> /\ reqs[x].id = <<"1">>
    /\ reqs[s].res = Json(200, "deleted", JNum(1))
    /\ reqs[x].res = Error("NotFoundError", <<>>)
    /\ jobs = {r \in SeedJobs : r.id = 2}

\* The value a body's field has as a column of the row.
C9_Column(body, k) ==
  IF k \in {"salary", "equity"} THEN NumberOf(body, k) ELSE StringOf(body, k)

\* Slot x holds an answered create whose job has the id that slot s asks
\* for, and the row the create inserted is in the store as inserted.
C9_RoundTrip(s, x) ==
  /\ Completes(s, "GET /:id")
  /\ Answered(x)
  /\ reqs[x].route = "POST /"
  /\ reqs[x].res.key = "job"
  /\ IdMatches(reqs[x].res.val, JStr(reqs[s].id))
  /\ reqs[x].res.val \in jobs

C10_NumericString(s) ==
  LET t == Trim(s)
  IN  \/ AllDigits(t)
      \/ t # <<>> /\ Head(t) \in {"-", "+"} /\ AllDigits(Tail(t))

\* C10 as claimed.  A search request whose minSalary parameter is present and
\* no numeric string is never waiting for Job.findAll, and once answered it
\* was answered BadRequestError without a call.
C10_NonNumericRejected ==
  \A s \in Slots :
    (reqs[s].route = "GET /" /\ Has(reqs[s].query, "minSalary")
       /\ ~C10_NumericString(reqs[s].query["minSalary"].s))
    => /\ reqs[s].pc # "await"
       /\ reqs[s].call = NoCall
       /\ Answered(s) => /\ reqs[s].res.key = "error"
                         /\ reqs[s].res.name = "BadRequestError"

====
